---------------------------- MODULE Spec2Model ----------------------------
(***************************************************************************)
(* Route Logger backend (src/backend/app.py): the /route/optimize handler, *)
(* optimize_route, with the memoised geocoder it calls and the external    *)
(* route optimizer whose answer it maps back onto the selected customers.  *)
(*                                                                         *)
(* One request is followed from its arrival to its response.  Strings that *)
(* the code inspects character by character (postcodes) are sequences of   *)
(* one-character strings; list indices are Python's (0-based) in the       *)
(* values the program handles and TLA+'s (1-based) in the sequences.       *)
(***************************************************************************)
EXTENDS Integers, Sequences, FiniteSets, TLC

VARIABLES
    pc,               \* position of the handler
    data,             \* request.json
    start_postcode,   \* data.get("start_postcode", "").strip()
    end_postcode,     \* data.get("end_postcode", "").strip()
    customers,        \* df.iloc[customer_ids].to_dict("records")
    waypoints,        \* coordinates collected so far
    geocoding_errors, \* failed start / end postcodes
    failed_customers, \* failed customers
    geocoding_stats,  \* total_attempted / successful / failed
    next_customer,    \* 0-based position of the customer loop
    cache,            \* lru_cache of geocode_postcode, least recent first
    geocode_calls,    \* every call of geocode_postcode, in order
    network_calls,    \* every query sent to geolocator.geocode, in order
    optimized_order,  \* waypoint_order returned by the optimizer
    legs,             \* legs returned by the optimizer
    optimizer_status, \* how the call of the optimizer ended
    response,         \* what the handler returned
    call_log,         \* the calls of geocode_postcode made by other callers
    threads,          \* the concurrent callers of geocode_postcode
    max_distance_km,  \* group_customers_by_proximity: its threshold
    groups,           \* group_customers_by_proximity: the clusters so far
    ungrouped,        \* group_customers_by_proximity: indices not yet grouped
    current_group,    \* group_customers_by_proximity: the cluster being built
    current_coords,   \* group_customers_by_proximity: the seed's coordinates
    scan,             \* group_customers_by_proximity: ungrouped[:] left to scan
    to_remove         \* group_customers_by_proximity: members added by the scan

vars == << pc, data, start_postcode, end_postcode, customers,
           waypoints, geocoding_errors, failed_customers, geocoding_stats,
           next_customer, cache, geocode_calls, network_calls,
           optimized_order, legs, optimizer_status, response,
           call_log, threads, max_distance_km, groups, ungrouped,
           current_group, current_coords, scan, to_remove >>

\* what optimize_route does not touch
geocoderVars == << call_log, threads >>

groupingVars == << max_distance_km, groups, ungrouped, current_group,
                   current_coords, scan, to_remove >>

\* what only optimize_route touches
routeVars == << data, start_postcode, end_postcode, waypoints,
                geocoding_errors, failed_customers, geocoding_stats,
                next_customer, geocode_calls, optimized_order, legs,
                optimizer_status, response >>

---------------------------------------------------------------------------
(* Bounds of the model *)

\* most customers selected in one request
MaxSel == 4

\* longest waypoint_order the optimizer answers with
MaxOrderLen == 3

---------------------------------------------------------------------------
(* Text *)

UK == << "U", "K" >>

\* characters str.isspace() holds of and str.strip() removes
Whitespace == { " ", "\t" }

\* characters str.isalnum() holds of
AlnumChars ==
    { "S", "W", "E", "C", "A", "B", "N", "1", "4", "9", "s", "w", "a" }

RECURSIVE LStrip(_)
LStrip(s) ==
    IF s # << >> /\ Head(s) \in Whitespace THEN LStrip(Tail(s)) ELSE s

RECURSIVE RStrip(_)
RStrip(s) ==
    IF s # << >> /\ s[Len(s)] \in Whitespace
    THEN RStrip(SubSeq(s, 1, Len(s) - 1))
    ELSE s

\* the value taken as sent, without .strip()
Strip_NotStripped(s) == s

\* str.strip()
Strip(s) == RStrip(LStrip(s))

\* The normalisation of the design document, which the properties compare the
\* program with: letters in upper case, ...
Upper(ch) ==
    CASE ch = "s" -> "S"
      [] ch = "w" -> "W"
      [] ch = "a" -> "A"
      [] ch = "u" -> "U"
      [] ch = "k" -> "K"
      [] OTHER    -> ch

UpperCase(s) == [ k \in 1..Len(s) |-> Upper(s[k]) ]

\* ... all whitespace removed, ...
RECURSIVE Compact(_)
Compact(s) ==
    IF s = << >> THEN << >>
    ELSE IF Head(s) \in Whitespace THEN Compact(Tail(s))
    ELSE << Head(s) >> \o Compact(Tail(s))

\* ... and one space before the final 3 characters
NormalisePostcode(postcode) ==
    LET p == Compact(UpperCase(postcode)) IN
    IF Len(p) > 3
    THEN SubSeq(p, 1, Len(p) - 3) \o << " " >> \o SubSeq(p, Len(p) - 2, Len(p))
    ELSE p

NormaliseCountry(country) == UpperCase(Strip(country))

---------------------------------------------------------------------------
(* The roster: the customers of the test fixture, repeated cyclically so   *)
(* that two customers of a longer roster share a postcode.                 *)

FixturePostcodes ==
    << << "S", "W", "1", "A", " ", "1", "A", "A" >>,
       << "E", "C", "1", "A", " ", "1", "B", "B" >>,
       << "W", "1", "A", " ", "1", "A", "A" >> >>

\* row i (0-based) of the data frame returned by load_customers()
Roster(i) ==
    [ company  |-> i + 1,
      postcode |-> FixturePostcodes[(i % Len(FixturePostcodes)) + 1],
      country  |-> UK ]

\* df.iloc[customer_ids].to_dict("records") if customer_ids else []
SelectCustomers(ids) == [ k \in 1..Len(ids) |-> Roster(ids[k]) ]

---------------------------------------------------------------------------
(* Geocoder *)

\* maxsize of the lru_cache around geocode_postcode
CacheMaxSize == 1000

\* what the geocoding service does with one query
NetOutcomes == { "found", "none", "error" }

\* geocode_postcode returning None
NotFound == [ found |-> FALSE, at |-> << >> ]

\* the (latitude, longitude) the service resolves a query to
Location(query) == [ found |-> TRUE, at |-> query ]

\* f"{postcode}, {country}"
Query(postcode, country) == postcode \o << ",", " " >> \o country

\* validate_postcode_format(postcode)[0]
ValidatePostcodeFormat(postcode) ==
    LET p == Strip(postcode) IN
    /\ postcode # << >>
    /\ p # << >>
    /\ ~ (Len(p) < 3)
    /\ ~ (Len(p) > 15)
    /\ \A k \in 1..Len(p) :
          p[k] \in AlnumChars \/ p[k] \in Whitespace \/ p[k] = "-"

\* an exception of the service that leaves the function
GeocodeBody_Propagates(postcode, country, net) ==
    IF ~ ValidatePostcodeFormat(postcode) THEN NotFound
    ELSE IF net = "found" THEN Location(Query(postcode, country))
    ELSE IF net = "error" THEN [ found |-> FALSE, at |-> << "raised" >> ]
    ELSE NotFound

\* the body of geocode_postcode, run on a cache miss
GeocodeBody(postcode, country, net) ==
    IF ~ ValidatePostcodeFormat(postcode) THEN NotFound
    ELSE IF net = "found" THEN Location(Query(postcode, country))
    ELSE NotFound

\* a lookup of the normalised postcode alone before the general query
GeocodeQueries_UKFirst(postcode, country) ==
    IF ValidatePostcodeFormat(postcode)
    THEN << NormalisePostcode(postcode), Query(postcode, country) >>
    ELSE << >>

\* the queries the body sends to geolocator.geocode
GeocodeQueries(postcode, country) ==
    IF ValidatePostcodeFormat(postcode)
    THEN << Query(postcode, country) >>
    ELSE << >>

CacheHit(c, key) == \E k \in 1..Len(c) : c[k].key = key

CacheLookup(c, key) == (CHOOSE k \in 1..Len(c) : c[k].key = key)

\* a hit makes the entry the most recently used one
CacheTouch(c, key) ==
    LET k == CacheLookup(c, key) IN
    SubSeq(c, 1, k - 1) \o SubSeq(c, k + 1, Len(c)) \o << c[k] >>

\* a store that never evicts
CacheStoreAt_NoEvict(c, key, value, maxsize) ==
    Append(c, [ key |-> key, value |-> value ])

\* a miss stores the result in a cache of capacity maxsize, evicting the least
\* recently used entry when it is full
CacheStoreAt(c, key, value, maxsize) ==
    LET e == [ key |-> key, value |-> value ] IN
    IF Len(c) >= maxsize THEN Tail(c) \o << e >> ELSE Append(c, e)

\* the same with the capacity of the program
CacheStore(c, key, value) == CacheStoreAt(c, key, value, CacheMaxSize)

\* a cache keyed on the normalised pair
GeocodePostcodeAt_NormalisedKey(c, postcode, country, net, maxsize) ==
    LET key == << NormalisePostcode(postcode), NormaliseCountry(country) >> IN
    IF CacheHit(c, key)
    THEN [ hit     |-> TRUE,
           result  |-> c[CacheLookup(c, key)].value,
           cache   |-> CacheTouch(c, key),
           queries |-> << >> ]
    ELSE [ hit     |-> FALSE,
           result  |-> GeocodeBody(postcode, country, net),
           cache   |-> CacheStoreAt(c, key, GeocodeBody(postcode, country, net),
                                    maxsize),
           queries |-> GeocodeQueries(postcode, country) ]

\* one call geocode_postcode(postcode, country) through an lru_cache of
\* capacity maxsize: its result, the cache it leaves and the queries it sent
GeocodePostcodeAt(c, postcode, country, net, maxsize) ==
    LET key == << postcode, country >> IN
    IF CacheHit(c, key)
    THEN [ hit     |-> TRUE,
           result  |-> c[CacheLookup(c, key)].value,
           cache   |-> CacheTouch(c, key),
           queries |-> << >> ]
    ELSE [ hit     |-> FALSE,
           result  |-> GeocodeBody(postcode, country, net),
           cache   |-> CacheStoreAt(c, key, GeocodeBody(postcode, country, net),
                                    maxsize),
           queries |-> GeocodeQueries(postcode, country) ]

\* the same with the capacity of the program
GeocodePostcode(c, postcode, country, net) ==
    GeocodePostcodeAt(c, postcode, country, net, CacheMaxSize)

\* the record of one call in geocode_calls
CallRecord(postcode, country, result) ==
    [ postcode |-> postcode, country |-> country, result |-> result ]

---------------------------------------------------------------------------
(* Requests *)

\* customer_ids of a request: the first n rows of the roster
SelectionSet == { [ k \in 1..n |-> k - 1 ] : n \in 0..MaxSel }

\* start_postcode as sent: absent, blank, a postcode with a leading blank,
\* or a postcode the format check rejects
StartInputs ==
    { << >>, << " " >>, << " ", "N", "1", "9" >>, << "N", "1", "*" >> }

\* end_postcode as sent: absent, blank, or a postcode with a trailing blank
EndInputs == { << >>, << " ", " " >>, << "E", "1", "4", " " >> }

\* data.get("start_country", "UK") and data.get("end_country", "UK")
StartCountry == UK

EndCountry == UK

\* len(customer_ids) + (1 if start_postcode else 0) + (1 if end_postcode else 0)
PotentialWaypoints(ids, sp, ep) ==
    Len(ids) + (IF sp # << >> THEN 1 ELSE 0) + (IF ep # << >> THEN 1 ELSE 0)

\* no request has arrived yet
NoRequest ==
    [ customer_ids |-> << >>, start_postcode |-> << >>, end_postcode |-> << >> ]

NoResponse == [ status |-> 0 ]

InputInsufficient(n) ==
    [ status             |-> 400,
      error              |-> "Need at least 2 total waypoints",
      current_waypoints  |-> n,
      required_waypoints |-> 2 ]

ZeroStats == [ total_attempted |-> 0, successful |-> 0, failed |-> 0 ]

Init ==
    /\ pc = "idle"
    /\ data = NoRequest
    /\ start_postcode = << >>
    /\ end_postcode = << >>
    /\ customers = << >>
    /\ waypoints = << >>
    /\ geocoding_errors = << >>
    /\ failed_customers = << >>
    /\ geocoding_stats = ZeroStats
    /\ next_customer = 0
    /\ cache = << >>
    /\ geocode_calls = << >>
    /\ network_calls = << >>
    /\ optimized_order = << >>
    /\ legs = << >>
    /\ optimizer_status = "not_called"
    /\ response = NoResponse
    /\ call_log = << >>
    /\ threads = << >>
    /\ max_distance_km = 0
    /\ groups = << >>
    /\ ungrouped = << >>
    /\ current_group = << >>
    /\ current_coords = NotFound
    /\ scan = << >>
    /\ to_remove = << >>

\* optimize_route up to the precondition check
Receive ==
    /\ pc = "idle"
    /\ \E ids \in SelectionSet, sp_raw \in StartInputs, ep_raw \in EndInputs :
          LET sp == Strip(sp_raw)
              ep == Strip(ep_raw)
              potential_waypoints == PotentialWaypoints(ids, sp, ep)
          IN
          /\ data' = [ customer_ids   |-> ids,
                        start_postcode |-> sp_raw,
                        end_postcode   |-> ep_raw ]
          /\ start_postcode' = sp
          /\ end_postcode' = ep
          /\ IF potential_waypoints < 2
             THEN /\ response' = InputInsufficient(potential_waypoints)
                  /\ customers' = customers
                  /\ pc' = "done"
             ELSE /\ response' = response
                  /\ customers' = (IF ids # << >> THEN SelectCustomers(ids) ELSE << >>)
                  /\ pc' = "geocode_start"
    /\ UNCHANGED << waypoints, geocoding_errors, failed_customers,
                    geocoding_stats, next_customer, cache, geocode_calls,
                    network_calls, optimized_order, legs, optimizer_status >>
    /\ UNCHANGED << geocoderVars, groupingVars >>

\* a failure counted as an attempt only
StatsAfter_FailedUncounted(stats, result) ==
    IF result.found
    THEN [ stats EXCEPT !.total_attempted = @ + 1, !.successful = @ + 1 ]
    ELSE [ stats EXCEPT !.total_attempted = @ + 1 ]

\* geocoding_stats after one attempt
StatsAfter(stats, result) ==
    IF result.found
    THEN [ stats EXCEPT !.total_attempted = @ + 1, !.successful = @ + 1 ]
    ELSE [ stats EXCEPT !.total_attempted = @ + 1, !.failed = @ + 1 ]

\* a failure leaving its None in the list
WaypointsAfter_Placeholder(wps, result) == Append(wps, result)

\* waypoints after one attempt: a success appends its coordinate
WaypointsAfter(wps, result) ==
    IF result.found THEN Append(wps, result) ELSE wps

\* the entry of geocoding_errors for a failed start or end postcode
PostcodeError(type, value, country) ==
    [ type |-> type, value |-> value, country |-> country ]

\* geocoding_errors after the attempt on the start or end postcode
ErrorsAfter(errors, type, value, country, result) ==
    IF result.found THEN errors
    ELSE Append(errors, PostcodeError(type, value, country))

\* the entry of failed_customers for a customer that did not geocode
FailedCustomer(customer) ==
    [ company  |-> customer.company,
      postcode |-> customer.postcode,
      country  |-> customer.country ]

\* the list reset at each failure, keeping the last failed customer only
FailedCustomersAfter_KeepLast(failed, customer, result) ==
    IF result.found THEN failed ELSE << FailedCustomer(customer) >>

\* failed_customers after the attempt on one customer
FailedCustomersAfter(failed, customer, result) ==
    IF result.found THEN failed ELSE Append(failed, FailedCustomer(customer))

\* "Add start postcode if provided"
GeocodeStart ==
    /\ pc = "geocode_start"
    /\ pc' = "geocode_customers"
    /\ IF start_postcode # << >>
       THEN \E net \in NetOutcomes :
               LET g == GeocodePostcode(cache, start_postcode, StartCountry, net) IN
               /\ geocoding_stats' = StatsAfter(geocoding_stats, g.result)
               /\ geocoding_errors' =
                     ErrorsAfter(geocoding_errors, "start_postcode",
                                 start_postcode, StartCountry, g.result)
               /\ waypoints' = WaypointsAfter(waypoints, g.result)
               /\ cache' = g.cache
               /\ geocode_calls' =
                     Append(geocode_calls,
                            CallRecord(start_postcode, StartCountry, g.result))
               /\ network_calls' = network_calls \o g.queries
       ELSE UNCHANGED << geocoding_stats, geocoding_errors, waypoints, cache,
                         geocode_calls, network_calls >>
    /\ UNCHANGED << data, start_postcode, end_postcode, customers,
                    failed_customers, next_customer, optimized_order, legs,
                    optimizer_status, response >>
    /\ UNCHANGED << geocoderVars, groupingVars >>

\* one iteration of "for customer in customers"
GeocodeCustomer ==
    /\ pc = "geocode_customers"
    /\ next_customer < Len(customers)
    /\ \E net \in NetOutcomes :
          LET customer == customers[next_customer + 1]
              g == GeocodePostcode(cache, customer.postcode, customer.country, net)
          IN
          /\ geocoding_stats' = StatsAfter(geocoding_stats, g.result)
          /\ waypoints' = WaypointsAfter(waypoints, g.result)
          /\ failed_customers' =
                FailedCustomersAfter(failed_customers, customer, g.result)
          /\ cache' = g.cache
          /\ geocode_calls' =
                Append(geocode_calls,
                       CallRecord(customer.postcode, customer.country, g.result))
          /\ network_calls' = network_calls \o g.queries
    /\ next_customer' = next_customer + 1
    /\ UNCHANGED << pc, data, start_postcode, end_postcode, customers,
                    geocoding_errors, optimized_order, legs, optimizer_status,
                    response >>
    /\ UNCHANGED << geocoderVars, groupingVars >>

\* "Add end postcode if provided", once the customer loop is over
GeocodeEnd ==
    /\ pc = "geocode_customers"
    /\ next_customer = Len(customers)
    /\ pc' = "check"
    /\ IF end_postcode # << >>
       THEN \E net \in NetOutcomes :
               LET g == GeocodePostcode(cache, end_postcode, EndCountry, net) IN
               /\ geocoding_stats' = StatsAfter(geocoding_stats, g.result)
               /\ geocoding_errors' =
                     ErrorsAfter(geocoding_errors, "end_postcode",
                                 end_postcode, EndCountry, g.result)
               /\ waypoints' = WaypointsAfter(waypoints, g.result)
               /\ cache' = g.cache
               /\ geocode_calls' =
                     Append(geocode_calls,
                            CallRecord(end_postcode, EndCountry, g.result))
               /\ network_calls' = network_calls \o g.queries
       ELSE UNCHANGED << geocoding_stats, geocoding_errors, waypoints, cache,
                         geocode_calls, network_calls >>
    /\ UNCHANGED << data, start_postcode, end_postcode, customers,
                    failed_customers, next_customer, optimized_order, legs,
                    optimizer_status, response >>
    /\ UNCHANGED << geocoderVars, groupingVars >>

\* "if len(waypoints) <= 2"
TooFewWaypoints_OffByOne(wps) == Len(wps) <= 2

\* "if len(waypoints) < 2"
TooFewWaypoints(wps) == Len(wps) < 2

\* the keys of error_response that are set only when there is something to list
OptionalKeys(stats, errors, failed) ==
    (IF stats.failed > 0 THEN { "summary" } ELSE { })
    \cup (IF errors # << >>
          THEN { "failed_postcodes", "failed_postcodes_formatted" } ELSE { })
    \cup (IF failed # << >>
          THEN { "failed_customers", "failed_customers_formatted" } ELSE { })
    \cup (IF errors # << >> \/ failed # << >> THEN { "suggestions" } ELSE { })

\* error_response; a list whose key is not in keys is not part of the response
WaypointsInsufficient(wps, stats, errors, failed) ==
    [ status             |-> 400,
      error              |-> "Need at least 2 valid locations after geocoding",
      valid_waypoints    |-> Len(wps),
      required_waypoints |-> 2,
      geocoding_stats    |-> stats,
      failed_postcodes   |-> errors,
      failed_customers   |-> failed,
      keys               |-> { "error", "details", "valid_waypoints",
                               "required_waypoints", "geocoding_stats" }
                             \cup OptionalKeys(stats, errors, failed) ]

\* "Check if we have enough valid waypoints after geocoding"
CheckWaypoints ==
    /\ pc = "check"
    /\ IF TooFewWaypoints(waypoints)
       THEN /\ response' = WaypointsInsufficient(waypoints, geocoding_stats,
                                                 geocoding_errors, failed_customers)
            /\ pc' = "done"
       ELSE /\ response' = response
            /\ pc' = "optimize"
    /\ UNCHANGED << data, start_postcode, end_postcode, customers,
                    waypoints, geocoding_errors, failed_customers,
                    geocoding_stats, next_customer, cache, geocode_calls,
                    network_calls, optimized_order, legs, optimizer_status >>
    /\ UNCHANGED << geocoderVars, groupingVars >>

---------------------------------------------------------------------------
(* The optimizer and the reconciliation of its answer *)

\* the values a waypoint_order may hold: -1 and MaxSel - 1 are out of range
\* for most interior sets
OrderValues == (0 - 1)..(MaxSel - 1)

OrderSet ==
    UNION { [ 1..n -> OrderValues ] : n \in 0..MaxOrderLen }

\* route["legs"] of an OK answer: one leg per pair of consecutive waypoints
LegsOf(wps) == [ k \in 1..(Len(wps) - 1) |-> "leg" ]

\* the answer of a request that did not end with status OK taken all the same
OptimizerAnswers_StatusUnchecked(wps) ==
    { [ status |-> st, order |-> << >>, legs |-> << >> ] :
         st \in { "no_key", "exception" } }
    \cup (IF Len(wps) < 2 THEN { }
          ELSE { [ status |-> st, order |-> o, legs |-> LegsOf(wps) ] :
                    st \in { "not_ok", "ok" }, o \in OrderSet })

\* what optimize_route_with_google_maps(waypoints, api_key) may return:
\* ([], []) without an API key or with fewer than 2 waypoints, on an exception
\* and on a status other than OK, and (waypoint_order, legs) of the answer
\* otherwise
OptimizerAnswers(wps) ==
    { [ status |-> st, order |-> << >>, legs |-> << >> ] :
         st \in { "no_key", "exception", "not_ok" } }
    \cup (IF Len(wps) < 2 THEN { }
          ELSE { [ status |-> "ok", order |-> o, legs |-> LegsOf(wps) ] :
                    o \in OrderSet })

\* all(0 <= i < n for i in optimized_order)
InRange(order, n) ==
    \A k \in 1..Len(order) : 0 <= order[k] /\ order[k] < n

\* [lst[i] for i in optimized_order]
Pick(lst, order) == [ k \in 1..Len(order) |-> lst[order[k] + 1] ]

\* customers[:-1]
MiddleStartFixed(cs) == SubSeq(cs, 1, Len(cs) - 1)

\* customers[1:]
MiddleEndFixed(cs) == SubSeq(cs, 2, Len(cs))

\* customers[1:-1]
MiddleNeitherFixed(cs) == SubSeq(cs, 2, Len(cs) - 1)

\* the both-fixed branch keeping the first customer in front, as the
\* end-fixed branch does
ReorderBothFixed_Reattach(cs, order) ==
    IF Len(cs) > 0 /\ InRange(order, Len(cs))
    THEN << cs[1] >> \o Pick(cs, order)
    ELSE << >>

\* "Start + customers + end"
ReorderBothFixed(cs, order) ==
    IF Len(cs) > 0 /\ InRange(order, Len(cs))
    THEN Pick(cs, order)
    ELSE << >>

\* "Start + customers (last customer is the end)"
ReorderStartFixed(cs, order) ==
    IF Len(cs) > 1
    THEN LET middle_customers == MiddleStartFixed(cs) IN
         IF InRange(order, Len(middle_customers))
         THEN Pick(middle_customers, order) \o << cs[Len(cs)] >>
         ELSE cs
    ELSE cs

\* the end-fixed branch with the slice and re-attachment of the start-fixed one
ReorderEndFixed_LastStays(cs, order) ==
    IF Len(cs) > 1
    THEN LET middle_customers == MiddleStartFixed(cs) IN
         IF InRange(order, Len(middle_customers))
         THEN Pick(middle_customers, order) \o << cs[Len(cs)] >>
         ELSE cs
    ELSE cs

\* "First customer is start + middle customers + end"
ReorderEndFixed(cs, order) ==
    IF Len(cs) > 1
    THEN LET middle_customers == MiddleEndFixed(cs) IN
         IF InRange(order, Len(middle_customers))
         THEN << cs[1] >> \o Pick(middle_customers, order)
         ELSE cs
    ELSE cs

\* the neither-fixed branch indexing customers instead of customers[1:-1]
ReorderNeitherFixed_NoOffset(cs, order) ==
    IF Len(cs) > 2
    THEN LET middle_customers == MiddleNeitherFixed(cs) IN
         IF InRange(order, Len(middle_customers))
         THEN << cs[1] >> \o Pick(cs, order) \o << cs[Len(cs)] >>
         ELSE cs
    ELSE cs

\* "Just customers, first and last are fixed"
ReorderNeitherFixed(cs, order) ==
    IF Len(cs) > 2
    THEN LET middle_customers == MiddleNeitherFixed(cs) IN
         IF InRange(order, Len(middle_customers))
         THEN << cs[1] >> \o Pick(middle_customers, order) \o << cs[Len(cs)] >>
         ELSE cs
    ELSE cs

\* "Reconstruct optimized customer list based on the order".  The orders of
\* the model hold integers only, so neither IndexError nor TypeError arises
\* once the range check has passed.
Reconcile(cs, order, sp, ep) ==
    IF order # << >> /\ Len(cs) > 0
    THEN IF sp # << >> /\ ep # << >> THEN ReorderBothFixed(cs, order)
         ELSE IF sp # << >> THEN ReorderStartFixed(cs, order)
         ELSE IF ep # << >> THEN ReorderEndFixed(cs, order)
         ELSE ReorderNeitherFixed(cs, order)
    ELSE cs

\* the success payload
RouteResult(optimized, route_legs, wps, sp, ep) ==
    [ status              |-> 200,
      optimized_customers |-> optimized,
      route_legs          |-> route_legs,
      waypoints           |-> wps,
      start_postcode      |-> sp,
      end_postcode        |-> ep ]

\* the call of the optimizer and everything after it
OptimizeAndReconcile ==
    /\ pc = "optimize"
    /\ \E answer \in OptimizerAnswers(waypoints) :
          /\ optimizer_status' = answer.status
          /\ optimized_order' = answer.order
          /\ legs' = answer.legs
          /\ response' =
                RouteResult(Reconcile(customers, answer.order,
                                      start_postcode, end_postcode),
                            answer.legs, waypoints, start_postcode, end_postcode)
    /\ pc' = "done"
    /\ UNCHANGED << data, start_postcode, end_postcode, customers,
                    waypoints, geocoding_errors, failed_customers,
                    geocoding_stats, next_customer, cache, geocode_calls,
                    network_calls >>
    /\ UNCHANGED << geocoderVars, groupingVars >>

Next ==
    \/ Receive
    \/ GeocodeStart
    \/ GeocodeCustomer
    \/ GeocodeEnd
    \/ CheckWaypoints
    \/ OptimizeAndReconcile

Spec == Init /\ [][Next]_vars

---------------------------------------------------------------------------
(* geocode_postcode called on its own *)

\* longest postcode tried on the format check, the long ones apart
MaxPostcodeLen == 3

\* an alphanumeric, a digit, a space, a tab, a hyphen and a character the
\* format check rejects
ValidateAlphabet == { "A", "1", " ", "\t", "-", "*" }

\* postcodes of 15 and 16 characters, and one of 15 between two blanks
LongPostcodes ==
    { [ k \in 1..15 |-> "A" ],
      [ k \in 1..16 |-> "A" ],
      << " " >> \o [ k \in 1..15 |-> "A" ] \o << " " >> }

\* the postcodes geocode_postcode is tried on
PostcodeInputs ==
    UNION { [ 1..n -> ValidateAlphabet ] : n \in 0..MaxPostcodeLen }
    \cup LongPostcodes

\* the record of one call in call_log: its arguments, what the service
\* answered, whether the lru_cache held the key, its result and its queries
LogRecord(postcode, country, net, g) ==
    [ postcode |-> postcode,
      country  |-> country,
      net      |-> net,
      hit      |-> g.hit,
      result   |-> g.result,
      queries  |-> g.queries ]

\* what the service may answer during one call: it is not called when the
\* lru_cache holds the pair or the postcode fails the format check
ServiceOutcomes(c, postcode, country) ==
    IF CacheHit(c, << postcode, country >>) \/ ~ ValidatePostcodeFormat(postcode)
    THEN { "not_called" }
    ELSE NetOutcomes

\* one call geocode_postcode(postcode, country), from the call to the return
LoggedCall(postcode, country, net, maxsize) ==
    LET g == GeocodePostcodeAt(cache, postcode, country, net, maxsize) IN
    /\ cache' = g.cache
    /\ network_calls' = network_calls \o g.queries
    /\ call_log' =
          Append(call_log, LogRecord(postcode, country, net, g))

\* one call on any postcode, in a fresh process
ValidateCall ==
    /\ call_log = << >>
    /\ \E postcode \in PostcodeInputs :
          \E net \in ServiceOutcomes(cache, postcode, UK) :
             LoggedCall(postcode, UK, net, CacheMaxSize)
    /\ UNCHANGED << pc, customers, routeVars, threads, groupingVars >>

NextValidate == ValidateCall

SpecValidate == Init /\ [][NextValidate]_vars

---------------------------------------------------------------------------
(* geocode_postcode called again and again in one process *)

\* calls followed
MaxGeoCalls == 4

\* capacity of the lru_cache followed here, standing for maxsize=1000
GeoCacheSize == 2

\* the (postcode, country) pairs called: a postcode as stored, the same one in
\* lower case without its space, the country in lower case, another country
GeoKeys ==
    { << FixturePostcodes[1], UK >>,
      << << "s", "w", "1", "a", "1", "a", "a" >>, UK >>,
      << FixturePostcodes[1], << "u", "k" >> >>,
      << FixturePostcodes[1], << "F", "R" >> >> }

\* one more call of geocode_postcode in the same process
GeoCall ==
    /\ Len(call_log) < MaxGeoCalls
    /\ \E key \in GeoKeys :
          \E net \in ServiceOutcomes(cache, key[1], key[2]) :
             LoggedCall(key[1], key[2], net, GeoCacheSize)
    /\ UNCHANGED << pc, customers, routeVars, threads, groupingVars >>

NextGeo == GeoCall

SpecGeo == Init /\ [][NextGeo]_vars

---------------------------------------------------------------------------
(* group_customers_by_proximity, called by create_groups *)

\* customers of the roster being grouped
MaxCustomers == 4

\* the postcodes of the roster: the three of the fixture and one that fails
\* the format check
GroupPostcodes == { FixturePostcodes[k] : k \in 1..3 } \cup { << "N", "1", "*" >> }

\* the rosters load_customers may return, customer i at index i
GroupRosters ==
    UNION { { [ k \in 1..n |-> [ company  |-> k,
                                 postcode |-> f[k],
                                 country  |-> UK ] ] :
                f \in [ 1..n -> GroupPostcodes ] } :
            n \in 0..MaxCustomers }

\* max_distance_km of the request, 10 when absent
DistanceInputs == { 0, 10, 20 }

\* where the service places the three postcodes: on one road, 8 km apart, so
\* that the first and the last are each near the middle one and far from
\* each other
SiteKm == << 0, 8, 16 >>

SiteOf(coords) ==
    CHOOSE k \in 1..3 : coords.at = Query(FixturePostcodes[k], UK)

\* geodesic(a, b).kilometers
Kilometers(a, b) ==
    LET d == SiteKm[SiteOf(a)] - SiteKm[SiteOf(b)] IN
    IF d < 0 THEN 0 - d ELSE d

\* a customer without coordinates passes for near
Near_Unchecked(current, coords, max) ==
    ~ coords.found \/ Kilometers(current, coords) <= max

\* "if coords:" and "if distance <= max_distance_km"
Near(current, coords, max) ==
    coords.found /\ Kilometers(current, coords) <= max

\* the new member put in front
GroupAfter_InFront(group, idx) == << idx >> \o group

\* current_group.append(idx)
GroupAfter(group, idx) == Append(group, idx)

\* the effect of one call of geocode_postcode made by the grouping
GroupGeocode(customer, net, g) ==
    /\ cache' = g.cache
    /\ network_calls' = network_calls \o g.queries
    /\ call_log' =
          Append(call_log, LogRecord(customer.postcode, customer.country, net, g))

\* list.remove of every index of to_remove
RemoveAll_Nothing(list, removed) == list

RECURSIVE RemoveAll(_, _)
RemoveAll(list, removed) ==
    IF list = << >> THEN << >>
    ELSE IF \E k \in 1..Len(removed) : removed[k] = Head(list)
         THEN RemoveAll(Tail(list), removed)
         ELSE << Head(list) >> \o RemoveAll(Tail(list), removed)

\* create_groups reads the request and the roster and enters the grouping
StartGrouping ==
    /\ pc = "idle"
    /\ \E roster \in GroupRosters, d \in DistanceInputs :
          /\ customers' = roster
          /\ max_distance_km' = d
          /\ ungrouped' = [ k \in 1..Len(roster) |-> k - 1 ]
    /\ groups' = << >>
    /\ pc' = "pick"
    /\ UNCHANGED << routeVars, geocoderVars, cache, network_calls,
                    current_group, current_coords, scan, to_remove >>

\* one turn of "while ungrouped" up to the inner loop: the seed is taken
\* and geocoded; a seed that does not geocode is a group of its own
PickSeed ==
    /\ pc = "pick"
    /\ ungrouped # << >>
    /\ \E net \in ServiceOutcomes(cache, customers[ungrouped[1] + 1].postcode,
                                  customers[ungrouped[1] + 1].country) :
          LET current_idx == ungrouped[1]
              current_customer == customers[current_idx + 1]
              g == GeocodePostcode(cache, current_customer.postcode,
                                   current_customer.country, net)
          IN
          /\ GroupGeocode(current_customer, net, g)
          /\ current_group' = << current_idx >>
          /\ ungrouped' = Tail(ungrouped)
          /\ current_coords' = g.result
          /\ IF ~ g.result.found
             THEN /\ groups' = Append(groups, << current_idx >>)
                  /\ pc' = "pick"
                  /\ UNCHANGED << scan, to_remove >>
             ELSE /\ to_remove' = << >>
                  /\ scan' = Tail(ungrouped)
                  /\ pc' = "scan"
                  /\ UNCHANGED groups
    /\ UNCHANGED << customers, max_distance_km, routeVars, threads >>

\* one turn of "for idx in ungrouped[:]"
ScanNext ==
    /\ pc = "scan"
    /\ scan # << >>
    /\ \E net \in ServiceOutcomes(cache, customers[scan[1] + 1].postcode,
                                  customers[scan[1] + 1].country) :
          LET idx == scan[1]
              customer == customers[idx + 1]
              g == GeocodePostcode(cache, customer.postcode,
                                   customer.country, net)
          IN
          /\ GroupGeocode(customer, net, g)
          /\ IF Near(current_coords, g.result, max_distance_km)
             THEN /\ current_group' = GroupAfter(current_group, idx)
                  /\ to_remove' = Append(to_remove, idx)
             ELSE UNCHANGED << current_group, to_remove >>
    /\ scan' = Tail(scan)
    /\ UNCHANGED << pc, customers, max_distance_km, groups, ungrouped,
                    current_coords, routeVars, threads >>

\* the end of the inner loop: the members leave ungrouped, the group is kept
CloseGroup ==
    /\ pc = "scan"
    /\ scan = << >>
    /\ ungrouped' = RemoveAll(ungrouped, to_remove)
    /\ groups' = Append(groups, current_group)
    /\ pc' = "pick"
    /\ UNCHANGED << customers, max_distance_km, current_group, current_coords,
                    scan, to_remove, cache, network_calls, routeVars,
                    geocoderVars >>

\* "return groups"
ReturnGroups ==
    /\ pc = "pick"
    /\ ungrouped = << >>
    /\ pc' = "grouped"
    /\ UNCHANGED << customers, groupingVars, cache, network_calls, routeVars,
                    geocoderVars >>

NextGroup ==
    \/ StartGrouping
    \/ PickSeed
    \/ ScanNext
    \/ CloseGroup
    \/ ReturnGroups

SpecGroup == Init /\ [][NextGroup]_vars

---------------------------------------------------------------------------
(* geocode_postcode called by the threads of concurrent requests.  The     *)
(* lru_cache looks the key up, runs the function outside its lock on a     *)
(* miss, and stores the result unless the key arrived in the meantime.     *)

\* the threads serving requests
Threads == { "t1", "t2" }

\* calls followed, all threads together
MaxRaceCalls == 3

\* the pairs the threads call
RaceKeys ==
    { << FixturePostcodes[1], UK >>,
      << FixturePostcodes[2], UK >>,
      << FixturePostcodes[3], UK >> }

\* the threads inside a call that missed
Calling == DOMAIN threads

\* the record of one call made by a thread; stored tells whether the call
\* put its result in the cache
RaceRecord(postcode, country, net, g, stored) ==
    [ postcode |-> postcode,
      country  |-> country,
      net      |-> net,
      hit      |-> g.hit,
      result   |-> g.result,
      queries  |-> g.queries,
      stored   |-> stored ]

\* a store that does not look for the key
StoreComputed_Unchecked(c, key, value, maxsize) ==
    CacheStoreAt(c, key, value, maxsize)

\* the store after the function returned: nothing when another thread stored
\* the key during the call
StoreComputed(c, key, value, maxsize) ==
    IF CacheHit(c, key) THEN c ELSE CacheStoreAt(c, key, value, maxsize)

\* thread t calls geocode_postcode: a hit returns at once, a miss leaves the
\* thread about to run the function
RaceCall(t) ==
    /\ t \notin Calling
    /\ Len(call_log) + Cardinality(Calling) < MaxRaceCalls
    /\ \E key \in RaceKeys :
          IF CacheHit(cache, key)
          THEN LET g == GeocodePostcodeAt(cache, key[1], key[2], "none",
                                          GeoCacheSize)
               IN
               /\ cache' = g.cache
               /\ call_log' =
                     Append(call_log,
                            RaceRecord(key[1], key[2], "not_called", g, FALSE))
               /\ UNCHANGED threads
          ELSE /\ threads' =
                     [ u \in Calling \cup { t } |->
                          IF u = t
                          THEN [ at       |-> "missed",
                                 postcode |-> key[1],
                                 country  |-> key[2],
                                 net      |-> "not_called",
                                 result   |-> NotFound ]
                          ELSE threads[u] ]
               /\ UNCHANGED << cache, call_log >>
    /\ UNCHANGED << pc, customers, routeVars, network_calls, groupingVars >>

\* thread t runs the function body: the format check and the service call
RaceBody(t) ==
    /\ t \in Calling
    /\ threads[t].at = "missed"
    /\ \E net \in NetOutcomes :
          threads' =
             [ threads EXCEPT
                  ![t].at = "computed",
                  ![t].net = net,
                  ![t].result =
                     GeocodeBody(threads[t].postcode, threads[t].country, net) ]
    /\ network_calls' =
          network_calls \o GeocodeQueries(threads[t].postcode, threads[t].country)
    /\ UNCHANGED << pc, customers, routeVars, cache, call_log, groupingVars >>

\* thread t is back in the lru_cache wrapper, which stores and returns
RaceReturn(t) ==
    /\ t \in Calling
    /\ threads[t].at = "computed"
    /\ LET key == << threads[t].postcode, threads[t].country >>
           g == [ hit     |-> FALSE,
                  result  |-> threads[t].result,
                  queries |-> GeocodeQueries(key[1], key[2]) ]
       IN
       /\ cache' = StoreComputed(cache, key, threads[t].result, GeoCacheSize)
       /\ call_log' =
             Append(call_log,
                    RaceRecord(key[1], key[2], threads[t].net, g,
                               ~ CacheHit(cache, key)))
    /\ threads' = [ u \in Calling \ { t } |-> threads[u] ]
    /\ UNCHANGED << pc, customers, routeVars, network_calls, groupingVars >>

NextRace ==
    \E t \in Threads :
       \/ RaceCall(t)
       \/ RaceBody(t)
       \/ RaceReturn(t)

SpecRace == Init /\ [][NextRace]_vars

---------------------------------------------------------------------------
(* What the properties below read off a state *)

NonBlank(s) == \E k \in 1..Len(s) : s[k] \notin Whitespace

StartGiven == NonBlank(data.start_postcode)

EndGiven == NonBlank(data.end_postcode)

\* selected customers + present start + present end
RequestedCount ==
    Len(data.customer_ids) + (IF StartGiven THEN 1 ELSE 0)
                           + (IF EndGiven THEN 1 ELSE 0)

\* the request went past the precondition check
PassedPrecondition == pc # "idle" /\ RequestedCount >= 2

Succeeded == pc = "done" /\ response.status = 200

\* the request ended with the insufficient-after-geocoding error
FailedAfterGeocoding ==
    pc = "done" /\ response.status = 400 /\ RequestedCount >= 2

\* the geocoding of every entity is over
GeocodingOver ==
    PassedPrecondition /\ pc \in { "check", "optimize", "done" }

NumSuccessful ==
    Cardinality({ k \in 1..Len(geocode_calls) : geocode_calls[k].result.found })

\* the call made for the customer at (1-based) position k of the selection
CustomerCall(k) == geocode_calls[(IF StartGiven THEN 1 ELSE 0) + k]

CustomerGeocoded(k) == CustomerCall(k).result.found

AllCustomersGeocoded == \A k \in 1..Len(customers) : CustomerGeocoded(k)

StartGeocoded == StartGiven /\ geocode_calls[1].result.found

EndGeocoded == EndGiven /\ geocode_calls[Len(geocode_calls)].result.found

\* p is a permutation of 0..n-1
IsPermutation(p, n) ==
    /\ Len(p) = n
    /\ \A v \in 0..(n - 1) : \E k \in 1..n : p[k] = v

\* the length of the interior set of the configuration table
InteriorLength ==
    Len(customers) - (IF StartGiven THEN 0 ELSE 1) - (IF EndGiven THEN 0 ELSE 1)

\* the (1-based) position in customers of the first interior customer
InteriorFirst == IF StartGiven THEN 1 ELSE 2

OrderOutOfRange ==
    \E k \in 1..Len(optimized_order) :
       optimized_order[k] < 0 \/ optimized_order[k] >= InteriorLength

\* the handler indexed its interior set through the optimizer's permutation
PermutationApplied ==
    /\ Succeeded
    /\ optimized_order # << >>
    /\ InteriorLength > 0
    /\ ~ OrderOutOfRange

---------------------------------------------------------------------------
(* C1 *)

\* C1: whenever the optimizer returns a non-empty waypoint_order holding an
\* index outside [0, interior_set_length), optimized_customers is the
\* selection in its original order, in each of the four configurations.
C1_OutOfRangeFallsBack ==
    (Succeeded /\ optimized_order # << >> /\ OrderOutOfRange)
        => response.optimized_customers = customers

---------------------------------------------------------------------------
(* C2 *)

\* C2: whenever the permutation is applied, the interior set it indexes holds
\* only customers whose geocoding succeeded, and it is as long as the number
\* of interior waypoints submitted to the optimizer.
C2_InteriorOnlyGeocoded ==
    PermutationApplied =>
        /\ \A k \in InteriorFirst..(InteriorFirst + InteriorLength - 1) :
              CustomerGeocoded(k)
        /\ InteriorLength = Len(waypoints) - 2

---------------------------------------------------------------------------
(* C3 *)

\* C3: without start and end postcode, with n >= 3 customers that all
\* geocode and a valid permutation p of 0..n-3, optimized_customers is
\* customers[0], then customers[1 + p[j]] for each j, then customers[n-1].
C3_NeitherFixedReorder ==
    LET n == Len(customers) IN
    ( /\ Succeeded
      /\ ~ StartGiven /\ ~ EndGiven
      /\ n >= 3
      /\ AllCustomersGeocoded
      /\ IsPermutation(optimized_order, n - 2) )
    => response.optimized_customers =
          << customers[1] >>
          \o [ j \in 1..(n - 2) |-> customers[2 + optimized_order[j]] ]
          \o << customers[n] >>

\* four customers and the permutation [1, 0] give [c0, c2, c1, c3]
C3_Witness ==
    /\ Succeeded
    /\ ~ StartGiven /\ ~ EndGiven
    /\ Len(customers) = 4
    /\ AllCustomersGeocoded
    /\ optimized_order = << 1, 0 >>
    /\ response.optimized_customers =
          << Roster(0), Roster(2), Roster(1), Roster(3) >>

---------------------------------------------------------------------------
(* C4 *)

\* C4: with a start and an end postcode that geocode, n >= 1 customers that
\* all geocode and a valid permutation p of 0..n-1, optimized_customers is
\* exactly customers[p[j]] for each j, with nothing added.
C4_BothFixedReorder ==
    LET n == Len(customers) IN
    ( /\ Succeeded
      /\ StartGeocoded /\ EndGeocoded
      /\ n >= 1
      /\ AllCustomersGeocoded
      /\ IsPermutation(optimized_order, n) )
    => response.optimized_customers =
          [ j \in 1..n |-> customers[1 + optimized_order[j]] ]

\* three customers and the permutation [2, 0, 1] give [c2, c0, c1]
C4_Witness ==
    /\ Succeeded
    /\ StartGeocoded /\ EndGeocoded
    /\ Len(customers) = 3
    /\ AllCustomersGeocoded
    /\ optimized_order = << 2, 0, 1 >>
    /\ response.optimized_customers = << Roster(2), Roster(0), Roster(1) >>

---------------------------------------------------------------------------
(* C5 *)

\* C5: with exactly one fixed boundary, n >= 2 customers that all geocode and
\* a valid permutation p of 0..n-2: with the start only, optimized_customers
\* is customers[p[j]] for each j, then customers[n-1]; with the end only, it
\* is customers[0], then customers[1 + p[j]] for each j.
C5_OneFixedReorder ==
    LET n == Len(customers) IN
    ( /\ Succeeded
      /\ n >= 2
      /\ AllCustomersGeocoded
      /\ IsPermutation(optimized_order, n - 1) )
    => /\ (StartGiven /\ ~ EndGiven) =>
             response.optimized_customers =
                [ j \in 1..(n - 1) |-> customers[1 + optimized_order[j]] ]
                \o << customers[n] >>
       /\ (EndGiven /\ ~ StartGiven) =>
             response.optimized_customers =
                << customers[1] >>
                \o [ j \in 1..(n - 1) |-> customers[2 + optimized_order[j]] ]

\* start only, three customers and the permutation [1, 0] give [c1, c0, c2]
C5_Witness ==
    /\ Succeeded
    /\ StartGiven /\ ~ EndGiven
    /\ Len(customers) = 3
    /\ AllCustomersGeocoded
    /\ optimized_order = << 1, 0 >>
    /\ response.optimized_customers = << Roster(1), Roster(0), Roster(2) >>

---------------------------------------------------------------------------
(* C6 *)

\* C6: when selected customers + non-blank start + non-blank end is below 2,
\* the request ends with the 400 "Need at least 2 total waypoints" whose
\* current_waypoints is that count, and geocode_postcode is never called.
C6_FailsFastBeforeGeocoding ==
    (pc # "idle" /\ RequestedCount < 2)
        => /\ pc = "done"
           /\ response.status = 400
           /\ response.error = "Need at least 2 total waypoints"
           /\ response.current_waypoints = RequestedCount
           /\ geocode_calls = << >>
           /\ network_calls = << >>

\* one customer and a blank start postcode: one waypoint, no geocoding
C6_Witness ==
    /\ pc = "done"
    /\ Len(data.customer_ids) = 1
    /\ data.start_postcode = << " " >>
    /\ ~ EndGiven
    /\ response.status = 400
    /\ response.current_waypoints = 1
    /\ geocode_calls = << >>

---------------------------------------------------------------------------
(* C7 *)

\* C7: a request that passes the precondition check succeeds (200 with
\* optimized_customers) if and only if at least 2 of the attempted entities
\* geocoded, whatever the pattern of successes and failures.
C7_SuccessIffTwoGeocoded ==
    (pc = "done" /\ RequestedCount >= 2)
        => /\ response.status \in { 200, 400 }
           /\ response.status = 200 <=> NumSuccessful >= 2
           /\ response.status = 200 =>
                 "optimized_customers" \in DOMAIN response

\* the start postcode failed and the two customers carried the request
C7_Witness ==
    /\ Succeeded
    /\ StartGiven /\ ~ StartGeocoded
    /\ Len(customers) = 2
    /\ AllCustomersGeocoded
    /\ NumSuccessful = 2

---------------------------------------------------------------------------
(* C8 *)

\* the failed start and end postcodes, as the error should list them
ExpectedFailedPostcodes ==
    (IF StartGiven /\ ~ StartGeocoded
     THEN << [ type    |-> "start_postcode",
               value   |-> geocode_calls[1].postcode,
               country |-> geocode_calls[1].country ] >>
     ELSE << >>)
    \o (IF EndGiven /\ ~ EndGeocoded
        THEN << [ type    |-> "end_postcode",
                  value   |-> geocode_calls[Len(geocode_calls)].postcode,
                  country |-> geocode_calls[Len(geocode_calls)].country ] >>
        ELSE << >>)

\* the failed customers among the first k, as the error should list them
RECURSIVE ExpectedFailedCustomers(_)
ExpectedFailedCustomers(k) ==
    IF k = 0 THEN << >>
    ELSE ExpectedFailedCustomers(k - 1)
         \o (IF CustomerGeocoded(k) THEN << >>
             ELSE << [ company  |-> Roster(data.customer_ids[k]).company,
                       postcode |-> CustomerCall(k).postcode,
                       country  |-> CustomerCall(k).country ] >>)

\* C8: the insufficient-after-geocoding error reports valid_waypoints equal
\* to the number of successful geocodes and lists every failed entity once:
\* failed start / end postcodes in failed_postcodes, failed customers in
\* failed_customers, together as many as geocoding_stats.failed.
C8_ErrorItemisesFailures ==
    FailedAfterGeocoding
        => /\ response.error = "Need at least 2 valid locations after geocoding"
           /\ response.valid_waypoints = NumSuccessful
           /\ response.failed_postcodes = ExpectedFailedPostcodes
           /\ response.failed_customers =
                 ExpectedFailedCustomers(Len(data.customer_ids))
           /\ Len(response.failed_postcodes) + Len(response.failed_customers)
                 = response.geocoding_stats.failed
           /\ response.failed_postcodes # << >>
                 => "failed_postcodes" \in response.keys
           /\ response.failed_customers # << >>
                 => "failed_customers" \in response.keys

\* a failed start postcode, two failed customers and one that geocoded
C8_Witness ==
    /\ FailedAfterGeocoding
    /\ Len(response.failed_postcodes) = 1
    /\ Len(response.failed_customers) = 2
    /\ response.valid_waypoints = 1
    /\ response.geocoding_stats.failed = 3

---------------------------------------------------------------------------
(* C9 *)

\* the entities to geocode, in the order of the specification
AttemptSequence ==
    (IF StartGiven THEN << << start_postcode, StartCountry >> >> ELSE << >>)
    \o [ k \in 1..Len(data.customer_ids) |->
            << Roster(data.customer_ids[k]).postcode,
               Roster(data.customer_ids[k]).country >> ]
    \o (IF EndGiven THEN << << end_postcode, EndCountry >> >> ELSE << >>)

\* the coordinates of the successful calls among the first k, in call order
RECURSIVE SuccessfulCoordinates(_)
SuccessfulCoordinates(k) ==
    IF k = 0 THEN << >>
    ELSE SuccessfulCoordinates(k - 1)
         \o (IF geocode_calls[k].result.found
             THEN << geocode_calls[k].result >>
             ELSE << >>)

\* C9: geocoding is attempted in the order start postcode, customers in
\* selection order, end postcode, and waypoints is the subsequence of the
\* successful geocodes of that sequence, with nothing in place of a failure.
C9_WaypointsAreSuccessfulAttempts ==
    PassedPrecondition
        => /\ Len(geocode_calls) <= Len(AttemptSequence)
           /\ \A k \in 1..Len(geocode_calls) :
                 << geocode_calls[k].postcode, geocode_calls[k].country >>
                    = AttemptSequence[k]
           /\ waypoints = SuccessfulCoordinates(Len(geocode_calls))
           /\ \A k \in 1..Len(waypoints) : waypoints[k].found
           /\ GeocodingOver => Len(geocode_calls) = Len(AttemptSequence)

\* start found, first customer failed, second found, end found
C9_Witness ==
    /\ pc = "check"
    /\ StartGeocoded /\ EndGeocoded
    /\ Len(customers) = 2
    /\ ~ CustomerGeocoded(1) /\ CustomerGeocoded(2)
    /\ Len(waypoints) = 3
    /\ waypoints[2].at = Query(Roster(1).postcode, Roster(1).country)

---------------------------------------------------------------------------
(* C10 *)

\* the counters agree with each other, with the request and with the calls
CountersConsistent(stats, valid) ==
    /\ valid = stats.successful
    /\ stats.successful = NumSuccessful
    /\ stats.successful + stats.failed = stats.total_attempted
    /\ stats.total_attempted = RequestedCount

\* C10: where the optimizer is called and in every insufficient-after-
\* geocoding error, len(waypoints) = successful, successful + failed =
\* total_attempted and total_attempted = selected customers + present start
\* + present end.
C10_CountersConsistent ==
    /\ pc = "optimize" => CountersConsistent(geocoding_stats, Len(waypoints))
    /\ FailedAfterGeocoding =>
          CountersConsistent(response.geocoding_stats, response.valid_waypoints)

\* fewer coordinates are submitted than were requested
C10_Witness ==
    /\ pc = "optimize"
    /\ Len(waypoints) = 2
    /\ geocoding_stats.total_attempted = 4
    /\ geocoding_stats.failed = 2

---------------------------------------------------------------------------
(* C11 *)

\* the optimizer gave no answer: no API key, an exception, a status not OK
OptimizerUnavailable ==
    optimizer_status \in { "no_key", "exception", "not_ok" }

\* C11: when the optimizer is unavailable and at least 2 entities geocoded,
\* the request succeeds with the selected customers in their selection order
\* and with empty route_legs.
C11_UnavailableOptimizerDegrades ==
    /\ (pc = "optimize") => NumSuccessful >= 2
    /\ (pc = "done" /\ OptimizerUnavailable)
          => /\ NumSuccessful >= 2
             /\ response.status = 200
             /\ response.optimized_customers =
                   [ k \in 1..Len(data.customer_ids) |->
                        Roster(data.customer_ids[k]) ]
             /\ response.route_legs = << >>

\* three customers that all geocode, no API key
C11_Witness ==
    /\ Succeeded
    /\ optimizer_status = "no_key"
    /\ ~ StartGiven /\ ~ EndGiven
    /\ Len(customers) = 3
    /\ AllCustomersGeocoded
    /\ response.optimized_customers = << Roster(0), Roster(1), Roster(2) >>
    /\ response.route_legs = << >>

---------------------------------------------------------------------------
(* C12 *)

\* the postcode of call j of call_log, trimmed
Trimmed(j) == Strip(call_log[j].postcode)

\* what the claim rejects: empty, shorter than 3, longer than 15, or holding
\* a character that is no alphanumeric, no space and no hyphen
ClaimRejects(p) ==
    \/ p = << >>
    \/ Len(p) < 3
    \/ Len(p) > 15
    \/ \E k \in 1..Len(p) : p[k] \notin AlnumChars \cup { " ", "-" }

\* C12: geocode_postcode returns NotFound without any call of the geocoding
\* service when the trimmed postcode is empty, shorter than 3, longer than 15
\* or holds a character that is no alphanumeric, space or hyphen; for every
\* other postcode a lookup is attempted.
C12_RejectsWithoutNetwork ==
    \A j \in 1..Len(call_log) :
       IF ClaimRejects(Trimmed(j))
       THEN call_log[j].result = NotFound /\ call_log[j].queries = << >>
       ELSE call_log[j].queries
               = << Query(call_log[j].postcode, call_log[j].country) >>

---------------------------------------------------------------------------
(* C13 *)

CallKey(j) == << call_log[j].postcode, call_log[j].country >>

\* the earlier calls of the pair of call j
EarlierSame(j) == { i \in 1..(j - 1) : CallKey(i) = CallKey(j) }

\* the latest of them
LastSame(j) == CHOOSE i \in EarlierSame(j) : \A h \in EarlierSame(j) : h <= i

\* the pairs called between calls i and j
KeysBetween(i, j) == { CallKey(m) : m \in (i + 1)..(j - 1) }

\* the entry of the pair of call j is still held when call j starts: the pair
\* was called before and fewer pairs than the capacity were called since
Held(j) ==
    /\ EarlierSame(j) # {}
    /\ Cardinality(KeysBetween(LastSame(j), j)) < GeoCacheSize

\* C13: once a call for a (postcode, country) pair has completed, a later
\* call with the same pair returns the cached outcome, a cached NotFound
\* included, without a new service call, as long as the entry is held; the
\* cache never holds more entries than its capacity.
C13_CachedOutcomeReturned ==
    /\ Len(cache) <= GeoCacheSize
    /\ \A j \in 1..Len(call_log) :
          Held(j) => /\ call_log[j].hit
                     /\ call_log[j].queries = << >>
                     /\ call_log[j].result = call_log[LastSame(j)].result
    /\ Len(network_calls)
          <= Cardinality({ j \in 1..Len(call_log) : ~ Held(j) })

\* a NotFound cached by call 1 is returned by call 3 without the service
\* being asked again, and call 4 evicts an entry of the full cache
C13_Witness ==
    /\ Len(call_log) = 4
    /\ CallKey(1) = CallKey(3) /\ CallKey(2) # CallKey(1)
    /\ CallKey(4) \notin { CallKey(1), CallKey(2) }
    /\ call_log[1].net = "error" /\ call_log[1].result = NotFound
    /\ call_log[3].net = "not_called" /\ call_log[3].hit
    /\ call_log[3].result = NotFound
    /\ Len(network_calls) = 3
    /\ Len(cache) = GeoCacheSize
    /\ \A k \in 1..Len(cache) : cache[k].key # CallKey(2)

---------------------------------------------------------------------------
(* C14 *)

NormalisedKey(j) ==
    << NormalisePostcode(call_log[j].postcode),
       NormaliseCountry(call_log[j].country) >>

CallsOfEntry(k) == { j \in 1..Len(call_log) : CallKey(j) = cache[k].key }

---------------------------------------------------------------------------
(* C15 *)

UKSynonym(country) == NormaliseCountry(country) = UK

RECURSIVE QueriesUpTo(_)
QueriesUpTo(j) ==
    IF j = 0 THEN << >> ELSE QueriesUpTo(j - 1) \o call_log[j].queries

---------------------------------------------------------------------------
(* C16 *)

\* the calls of geocode_postcode for customer i (index from 0)
CallsFor(i) ==
    { j \in 1..Len(call_log) :
         CallKey(j) = << customers[i + 1].postcode, customers[i + 1].country >> }

\* a lookup for customer i met a failure of the service: no result, or an
\* error, timeout or other exception
LookupFailed(i) ==
    \E j \in CallsFor(i) :
       /\ call_log[j].queries # << >>
       /\ call_log[j].net \in { "none", "error" }

Singleton(i) == \E g \in 1..Len(groups) : groups[g] = << i >>

\* C16: geocode_postcode never propagates a failure of the service. A lookup
\* that errors, times out, raises or finds nothing returns NotFound, a call
\* returns nothing but NotFound or a coordinate, and the caller goes on to
\* its end with the customer treated as one that has no coordinates.
C16_FailureYieldsNotFound ==
    /\ \A j \in 1..Len(call_log) :
          /\ call_log[j].result
                \in { NotFound,
                      Location(Query(call_log[j].postcode, call_log[j].country)) }
          /\ (~ call_log[j].hit /\ call_log[j].net \in { "none", "error" })
                => call_log[j].result = NotFound
    /\ pc = "grouped"
          => \A i \in 0..(Len(customers) - 1) : LookupFailed(i) => Singleton(i)

\* the lookup for customer 0 raises, the one for customer 1 answers, and the
\* grouping returns both
C16_Witness ==
    /\ pc = "grouped"
    /\ Len(customers) = 2
    /\ call_log[1].net = "error" /\ call_log[1].queries # << >>
    /\ call_log[1].result = NotFound
    /\ call_log[2].result.found
    /\ groups = << << 0 >>, << 1 >> >>

---------------------------------------------------------------------------
(* C18, C19, C20 *)

\* what geocode_postcode answered for customer i: one answer per customer,
\* the lru_cache returning the first one from then on
Coords(i) == call_log[CHOOSE j \in CallsFor(i) : TRUE].result

AnswersAgree ==
    \A i \in 0..(Len(customers) - 1) :
       /\ CallsFor(i) # {}
       /\ \A j, h \in CallsFor(i) : call_log[j].result = call_log[h].result

Members(g) == { groups[g][k] : k \in 1..Len(groups[g]) }

EarlierMembers(g) == UNION { Members(h) : h \in 1..(g - 1) }

Indices == 0..(Len(customers) - 1)

\* the cluster the claim gives seed s when the customers of `taken` are
\* grouped already
ClusterOf(s, taken) ==
    { s } \cup
    { i \in Indices \ taken :
         /\ Coords(s).found
         /\ Coords(i).found
         /\ Kilometers(Coords(s), Coords(i)) <= max_distance_km }

\* C18: the groups returned are a partition of the indices 0..n-1; each
\* cluster is its seed together with exactly the customers that were not
\* grouped when the seed was picked, geocode, and lie within max_distance_km
\* of the seed itself; when every customer is within that distance of
\* customer 0 there is one cluster with all indices.
C18_GreedySeedClusters ==
    pc = "grouped" =>
       /\ AnswersAgree
       /\ UNION { Members(g) : g \in 1..Len(groups) } = Indices
       /\ \A g, h \in 1..Len(groups) : g # h => Members(g) \cap Members(h) = {}
       /\ \A g \in 1..Len(groups) : Cardinality(Members(g)) = Len(groups[g])
       /\ \A g \in 1..Len(groups) :
             Members(g) = ClusterOf(groups[g][1], EarlierMembers(g))
       /\ (/\ Len(customers) > 0
           /\ ClusterOf(0, {}) = Indices)
             => groups = << [ k \in 1..Len(customers) |-> k - 1 ] >>

\* customers 0 and 2 are each near customer 1 but far from each other: 1
\* joins seed 0 and 2 stays out, being too far from the seed
C18_Witness ==
    /\ pc = "grouped"
    /\ Len(customers) = 3
    /\ \A i \in Indices : Coords(i).found
    /\ Kilometers(Coords(0), Coords(1)) <= max_distance_km
    /\ Kilometers(Coords(1), Coords(2)) <= max_distance_km
    /\ Kilometers(Coords(0), Coords(2)) > max_distance_km
    /\ groups = << << 0, 1 >>, << 2 >> >>

\* C19: the clusters come in strictly ascending order of their seeds, each
\* seed is the lowest index that no earlier cluster holds, and inside a
\* cluster the seed comes first and the other members follow in ascending
\* order.
C19_SeedAndMemberOrder ==
    \A g \in 1..Len(groups) :
       /\ groups[g] # << >>
       /\ g > 1 => groups[g - 1][1] < groups[g][1]
       /\ \A i \in Indices :
             i < groups[g][1] => i \in EarlierMembers(g)
       /\ groups[g][1] \notin EarlierMembers(g)
       /\ \A k \in 2..Len(groups[g]) : groups[g][k - 1] < groups[g][k]

\* customer 2 joins seed 0 ahead of customer 1, which opens the second cluster
C19_Witness ==
    /\ pc = "grouped"
    /\ groups = << << 0, 2 >>, << 1 >> >>

\* C20: a customer whose postcode does not geocode is never a member of the
\* cluster of another customer and ends as the only member of a cluster of
\* its own.
C20_UngeocodableIsAlone ==
    /\ \A g \in 1..Len(groups) : \A k \in 1..Len(groups[g]) :
          (CallsFor(groups[g][k]) # {} /\ ~ Coords(groups[g][k]).found)
             => Len(groups[g]) = 1
    /\ pc = "grouped"
          => \A i \in Indices : ~ Coords(i).found => Singleton(i)

\* customer 1 has a postcode of a bad format and customer 2 one the service
\* does not find: each is alone, however large the distance allowed
C20_Witness ==
    /\ pc = "grouped"
    /\ Len(customers) = 3
    /\ Coords(0).found
    /\ ~ ValidatePostcodeFormat(customers[2].postcode)
    /\ ValidatePostcodeFormat(customers[3].postcode)
    /\ ~ Coords(2).found
    /\ customers[3].postcode # customers[1].postcode
    /\ max_distance_km = 20
    /\ groups = << << 0 >>, << 1 >>, << 2 >> >>

---------------------------------------------------------------------------
(* C17 *)

\* the calls before call j that put the pair of call j in the cache
StoresBefore(j) ==
    { i \in 1..(j - 1) : CallKey(i) = CallKey(j) /\ call_log[i].stored }

\* C17: when calls for one uncached pair overlap, each may query the
\* service, but in every interleaving the cache has at most one entry per
\* pair, the entry holds an outcome that one of the calls computed, the cache
\* never exceeds its capacity, and a later call answered from the cache
\* returns the value that was stored last for its pair.
C17_RaceLeavesOneEntry ==
    /\ Len(cache) <= GeoCacheSize
    /\ \A a, b \in 1..Len(cache) : a # b => cache[a].key # cache[b].key
    /\ \A k \in 1..Len(cache) :
          \E j \in CallsOfEntry(k) :
             /\ call_log[j].stored
             /\ call_log[j].result = cache[k].value
             /\ \A h \in CallsOfEntry(k) : call_log[h].stored => h <= j
    /\ \A j \in 1..Len(call_log) :
          call_log[j].hit
             => /\ call_log[j].queries = << >>
                /\ \E i \in StoresBefore(j) :
                      /\ \A h \in StoresBefore(j) : h <= i
                      /\ call_log[j].result = call_log[i].result

\* two calls of one pair overlap and both query the service; the first to
\* return stores a coordinate, the second returns its own NotFound and
\* stores nothing, and the call after them gets the coordinate
C17_Witness ==
    /\ Len(call_log) = 3
    /\ CallKey(1) = CallKey(2) /\ CallKey(2) = CallKey(3)
    /\ call_log[1].stored /\ call_log[1].result.found
    /\ ~ call_log[2].hit /\ ~ call_log[2].stored
    /\ call_log[2].result = NotFound
    /\ call_log[3].hit /\ call_log[3].result = call_log[1].result
    /\ Len(network_calls) = 2
    /\ Len(cache) = 1

---------------------------------------------------------------------------
(* C21 *)

\* the places of customer c in the list lst
PlacesOf(c, lst) == { j \in 1..Len(lst) : lst[j] = c }

\* lst holds each selected customer exactly once and nothing else
PermutationOfSelection(lst) ==
    /\ Len(lst) = Len(customers)
    /\ \A k \in 1..Len(customers) :
          Cardinality(PlacesOf(customers[k], lst)) = 1

\* C21: in every successful response, whatever waypoint_order the optimizer
\* returned and whichever of the four configurations applies,
\* optimized_customers is a permutation of the selected customers: the same
\* length, each selected customer exactly once.
C21_OptimizedIsPermutation ==
    Succeeded => PermutationOfSelection(response.optimized_customers)

---------------------------------------------------------------------------
(* C22 *)

\* a start (an end) postcode was supplied and did not geocode, so that the
\* first (the last) customer was submitted as origin (as destination)
StartDropped == StartGiven /\ ~ StartGeocoded

EndDropped == EndGiven /\ ~ EndGeocoded

\* the customers submitted as origin and as destination, all customers
\* having geocoded
OriginCustomers == IF StartGeocoded THEN << >> ELSE << customers[1] >>

DestinationCustomers ==
    IF EndGeocoded THEN << >> ELSE << customers[Len(customers)] >>

\* the customers submitted as interior waypoints, all customers having
\* geocoded
SubmittedInterior ==
    SubSeq(customers, 1 + Len(OriginCustomers),
           Len(customers) - Len(DestinationCustomers))

\* C22: the configuration used for reconciliation is the one of the waypoints
\* submitted. When a start (an end) postcode was supplied but did not geocode,
\* every customer geocoded and the optimizer returned a permutation of the
\* interior waypoints, the customer submitted as origin (as destination)
\* keeps the first (the last) place of optimized_customers and the
\* permutation is applied to the customers submitted as interior waypoints,
\* to them only.
C22_ConfigurationOfSubmittedWaypoints ==
    ( /\ Succeeded
      /\ StartDropped \/ EndDropped
      /\ AllCustomersGeocoded
      /\ IsPermutation(optimized_order, Len(waypoints) - 2) )
    => response.optimized_customers =
          OriginCustomers
          \o [ j \in 1..Len(optimized_order) |->
                  SubmittedInterior[optimized_order[j] + 1] ]
          \o DestinationCustomers

============================================================================
